---- MODULE Spec2Model ----
(***************************************************************************)
(* A model of lfs-server-s3: the S3 content store, the S3 metadata store   *)
(* with its per-repository lock collections, and the listener lifecycle of *)
(* main.  The remote bucket is the only shared state; every store method   *)
(* is a sequence of remote calls, each of which is one atomic step.        *)
(***************************************************************************)
EXTENDS Integers, Sequences, FiniteSets, TLC

VARIABLES
    bucket,      \* the remote bucket: a function from the keys present to their data
    pc,          \* per caller: where it is inside a lock-manager method
    key,         \* per caller: the local `key` of the method in progress
    locks,       \* per caller: the local slice the method is about to store
    deleted,     \* per caller: DeleteLock's local `deleted` (a *Lock)
    added,       \* history, per caller: the locks its AddLocks call was passed
    moved,       \* history, per caller: whether its sort changed the order
    missed,      \* history, per caller: locks other callers stored since its read
    ret,         \* what the call that finished last returned
    pager,       \* a client paging through FilteredLocks: its arguments and what it got
    fret,        \* what the last FilteredLocks call returned
    cpc,         \* per caller: where it is inside S3ContentStore.Put
    cmeta,       \* per caller: the meta its Put was given
    cbuf,        \* per caller: Put's local buf, the bytes read from r
    cret,        \* what the content-store call that finished last returned
    wrote,       \* history: for each blob key, the meta of the Put that uploaded it
    useTls,      \* Config.Cert and Config.Key are both set
    listening,   \* the raw network listener is open
    inflight,    \* the tracking listener's count of registered connections
    conns,       \* the connections of the process
    mainpc,      \* where main is: "serve", "wait" or "exited"
    call,        \* history: the call a lone caller made last, and the bucket it found
    mpc,         \* per caller: where it is inside S3MetaStore.Put
    mmeta,       \* per caller: the local meta that Put is about to store
    mret,        \* what the metadata call that finished last returned
    gone,        \* history: the locks DeleteLock returned, until AddLocks is passed them
    sized        \* history: for each object record, the Size it was first stored with

lockVars == <<pc, key, locks, deleted, added, moved, missed, ret, gone>>
filterVars == <<pager, fret>>
contentVars == <<cpc, cmeta, cbuf, cret, wrote>>
listenerVars == <<useTls, listening, inflight, conns, mainpc>>
metaVars == <<mpc, mmeta, mret, sized>>
vars == <<bucket, pc, key, locks, deleted, added, moved, missed, ret, pager, fret,
          cpc, cmeta, cbuf, cret, wrote, useTls, listening, inflight, conns, mainpc,
          call, mpc, mmeta, mret, gone, sized>>

-----------------------------------------------------------------------------
(* Bounds of the model.                                                    *)

\* the longest lock collection a call may build
MaxLocks == 2
\* the most locks one AddLocks call passes (l ...Lock)
MaxNew == 1
\* the longest collection FilteredLocks is run on
MaxColl == 5
\* the largest limit FilteredLocks is called with
MaxLimit == 3
\* the longest content a content-store Put is given
MaxContent == 1
\* the number of connections clients open
MaxConns == 3

Procs == {"p1", "p2"}
Repos == {"r1"}
Users == {"alice", "bob"}

-----------------------------------------------------------------------------
(* Data.                                                                   *)

usersPrefix == "users"
objectsPrefix == "objects"
locksPrefix == "locks"

\* The zero Lock (`var lock Lock`): empty strings and the zero time.
ZeroLock == [Id |-> "", Path |-> "", Owner |-> [Name |-> ""], LockedAt |-> 0]

LockUniverse ==
    { [Id |-> "a", Path |-> "p", Owner |-> [Name |-> "alice"], LockedAt |-> 2],
      [Id |-> "b", Path |-> "q", Owner |-> [Name |-> "bob"],   LockedAt |-> 1] }

\* the ids DeleteLock is called with: those of the locks and one no lock has
LockIds == {"a", "b", "zz"}

Range(s) == { s[i] : i \in 1..Len(s) }

SeqsUpTo(S, n) == UNION { [1..k -> S] : k \in 0..n }

\* A Go slice of locks: nil, or a (possibly empty) sequence of elements.
NilSlice == [isNil |-> TRUE, elems |-> <<>>]
Slice(s) == [isNil |-> FALSE, elems |-> s]

\* append(locks, l...): appending nothing to a nil slice leaves it nil.
GoAppend(ls, l) ==
    IF Len(l) = 0 THEN ls ELSE Slice(ls.elems \o l)

\* A *Lock: nil, or a pointer to a lock value.
NilPtr == [isNil |-> TRUE, lock |-> ZeroLock]
PtrTo(l) == [isNil |-> FALSE, lock |-> l]

makeKey(prefix, k) == prefix \o "/" \o k

-----------------------------------------------------------------------------
(* encoding/json on []Lock.                                                *)

\* json.Marshal(&locks): a nil slice encodes as null, any other as an array.
JsonMarshal(ls) ==
    IF ls.isNil THEN [json |-> "null", elems |-> <<>>]
    ELSE [json |-> "array", elems |-> ls.elems]

\* json.Unmarshal(data, &locks): null leaves locks as it was, an array
\* replaces it by a non-nil slice of the decoded elements.
JsonUnmarshal(data, ls) ==
    IF data.json = "null" THEN ls ELSE Slice(data.elems)

-----------------------------------------------------------------------------
(* sort.Sort(LocksByCreatedAt(locks)).  For fewer than 12 elements         *)
(* sort.Sort is an insertion sort over Less and Swap.                      *)

Less(c, i, j) == c[i].LockedAt < c[j].LockedAt

Swap(c, i, j) == [c EXCEPT ![i] = c[j], ![j] = c[i]]

RECURSIVE SinkDown(_, _)
\* the inner loop: for j := i; j > a && Less(j, j-1); j-- { Swap(j, j-1) }
SinkDown(c, j) ==
    IF j > 1 /\ Less(c, j, j - 1) THEN SinkDown(Swap(c, j, j - 1), j - 1) ELSE c

RECURSIVE InsertionSort(_, _)
\* the outer loop: for i := a + 1; i < b; i++
InsertionSort(c, i) ==
    IF i > Len(c) THEN c ELSE InsertionSort(SinkDown(c, i), i + 1)

\* AddLocks without line 353: the appended slice is stored as it is.
SortLocksSkipped(ls) == ls

SortLocks(ls) ==
    [isNil |-> ls.isNil, elems |-> InsertionSort(ls.elems, 2)]

-----------------------------------------------------------------------------
(* The remote bucket.  Every remote call may fail (no retry is layered     *)
(* over it), so each has a failing outcome beside the successful one.      *)

NoDoc == [json |-> "null", elems |-> <<>>]

\* s3Get: (buf[:numBytes], nil) when the download succeeds, (nil, err) when
\* the key is absent ("NoSuchKey") or the download fails ("s3").
S3Get(b, k) ==
    {[isNil |-> TRUE, doc |-> NoDoc, err |-> "s3"]}
    \cup (IF k \in DOMAIN b THEN {[isNil |-> FALSE, doc |-> b[k], err |-> ""]}
          ELSE {[isNil |-> TRUE, doc |-> NoDoc, err |-> "NoSuchKey"]})

\* An upload that keeps what is stored under k and adds to it the elements
\* of d that are not stored yet, instead of replacing the document.
S3PutMerging(b, k, d) ==
    [x \in DOMAIN b \cup {k} |->
        IF x # k THEN b[x]
        ELSE IF k \notin DOMAIN b THEN d
        ELSE [json |-> d.json,
              elems |-> b[k].elems \o
                        SelectSeq(d.elems, LAMBDA e : e \notin Range(b[k].elems))]]

\* s3Put: the bucket after a successful upload of d under k.
S3Put(b, k, d) ==
    [x \in DOMAIN b \cup {k} |-> IF x = k THEN d ELSE b[x]]

\* s3Delete: the bucket after a successful delete of k.
S3Delete(b, k) ==
    [x \in DOMAIN b \ {k} |-> b[x]]

EmptyBucket == [x \in {} |-> NoDoc]

HasDoc(repo) == makeKey(locksPrefix, repo) \in DOMAIN bucket

\* The locks of the document stored for repo (none when there is no document).
Stored(repo) ==
    IF HasDoc(repo) THEN bucket[makeKey(locksPrefix, repo)].elems ELSE <<>>

StoredUnder(k) == IF k \in DOMAIN bucket THEN bucket[k].elems ELSE <<>>

-----------------------------------------------------------------------------
(* What a finished call returned: the method, the key it worked on, its    *)
(* error ("" for nil), the lock it returned, and for the history whether   *)
(* its sort changed the order and the locks of concurrent callers that its *)
(* upload dropped.                                                         *)

NoRet ==
    [op |-> "", key |-> "", err |-> "", lock |-> NilPtr,
     moved |-> FALSE, lost |-> {}]

Ret(op, k) == [NoRet EXCEPT !.op = op, !.key = k]

Return(p, r) ==
    /\ pc' = [pc EXCEPT ![p] = "idle"]
    /\ key' = [key EXCEPT ![p] = ""]
    /\ locks' = [locks EXCEPT ![p] = NilSlice]
    /\ deleted' = [deleted EXCEPT ![p] = NilPtr]
    /\ added' = [added EXCEPT ![p] = {}]
    /\ moved' = [moved EXCEPT ![p] = FALSE]
    /\ ret' = r

\* The callers that have read the document under k and not yet written it.
Pending(k) == { q \in Procs : pc[q] # "idle" /\ key[q] = k }

\* The deleted locks once AddLocks(repo, l) has been called: the locks it
\* is passed are no longer awaited to stay away.
GoneAfterAdd(k, l) == gone \ { [key |-> k, lock |-> x] : x \in Range(l) }

\* The deleted locks once p's DeleteLock has removed its lock, unless an
\* AddLocks call in progress on the key is passed that very lock.
GoneAfterDelete(p) ==
    IF \E q \in Procs : pc[q] = "addPut" /\ key[q] = key[p] /\ deleted[p].lock \in added[q]
    THEN gone
    ELSE gone \cup { [key |-> key[p], lock |-> deleted[p].lock] }

\* What the other callers missed once p's upload or delete went through.
MissedAfter(p) ==
    [q \in Procs |->
        IF q # p /\ q \in Pending(key[p]) THEN missed[q] \cup added[p] ELSE {}]

-----------------------------------------------------------------------------
(* S3MetaStore.AddLocks.                                                   *)

\* Lines 344-353: read the collection, append the new locks, sort.
AddLocksRead(p, repo, l) ==
    /\ pc[p] = "idle"
    /\ \E got \in S3Get(bucket, makeKey(locksPrefix, repo)) :
         LET read == IF got.isNil THEN NilSlice
                     ELSE JsonUnmarshal(got.doc, NilSlice)
             appended == GoAppend(read, l)
         IN  /\ Len(appended.elems) <= MaxLocks
             /\ locks' = [locks EXCEPT ![p] = SortLocks(appended)]
             /\ moved' = [moved EXCEPT ![p] = (SortLocks(appended) # appended)]
    /\ pc' = [pc EXCEPT ![p] = "addPut"]
    /\ key' = [key EXCEPT ![p] = makeKey(locksPrefix, repo)]
    /\ added' = [added EXCEPT ![p] = Range(l)]
    /\ missed' = [missed EXCEPT ![p] = {}]
    /\ gone' = GoneAfterAdd(makeKey(locksPrefix, repo), l)
    /\ UNCHANGED <<bucket, deleted, ret>>

\* Lines 354-359: encode and return s.s3Put(key, data), the upload succeeding.
AddLocksPut(p) ==
    /\ pc[p] = "addPut"
    /\ bucket' = S3Put(bucket, key[p], JsonMarshal(locks[p]))
    /\ Return(p, [Ret("AddLocks", key[p]) EXCEPT !.moved = moved[p],
                               !.lost = missed[p] \ Range(locks[p].elems)])
    /\ missed' = MissedAfter(p)
    /\ UNCHANGED gone

\* Line 359: the upload failing; nothing is stored and the error is returned.
AddLocksPutFails(p) ==
    /\ pc[p] = "addPut"
    /\ Return(p, [Ret("AddLocks", key[p]) EXCEPT !.err = "s3"])
    /\ missed' = [missed EXCEPT ![p] = {}]
    /\ UNCHANGED <<bucket, gone>>

-----------------------------------------------------------------------------
(* S3MetaStore.Locks: one download and a decode, so what a call returns is *)
(* a function of the bucket it reads and of whether the download succeeds. *)

\* Lines 365-372: the slice Locks builds from what s3Get returned (a failed
\* or missing download leaves it nil).
LocksOf(got) ==
    IF got.isNil THEN NilSlice ELSE JsonUnmarshal(got.doc, NilSlice)

\* The slices a call Locks(repo) can return in the current state.
Locks(repo) ==
    { LocksOf(got) : got \in S3Get(bucket, makeKey(locksPrefix, repo)) }

-----------------------------------------------------------------------------
(* S3MetaStore.DeleteLock.                                                 *)

errNotOwner == "Attempt to delete other user's lock"

\* An owner test that force does not switch off.
NotOwnerDespiteForce(l, user, force) == l.Owner.Name # user

\* Line 450: the lock is another user's and the call is not forced.
NotOwner(l, user, force) == l.Owner.Name # user /\ ~force

RECURSIVE DeleteScan(_, _, _, _, _, _, _)
\* Lines 448-457: the loop over the decoded locks, from index i on, with the
\* locals lock and newLocks as they stand.
DeleteScan(ls, i, user, id, force, lock, newLocks) ==
    IF i > Len(ls) THEN [err |-> "", lock |-> lock, newLocks |-> newLocks]
    ELSE IF ls[i].Id = id
         THEN IF NotOwner(ls[i], user, force)
              THEN [err |-> errNotOwner, lock |-> lock, newLocks |-> newLocks]
              ELSE DeleteScan(ls, i + 1, user, id, force, ls[i], newLocks)
         ELSE IF ls[i].Id # ""
              THEN DeleteScan(ls, i + 1, user, id, force, lock, Append(newLocks, ls[i]))
              ELSE DeleteScan(ls, i + 1, user, id, force, lock, newLocks)

\* Lines 434-461: read and decode the collection, scan it, and return early
\* on a failed read, another user's lock, or no lock with that id.
DeleteLockRead(p, repo, user, id, force) ==
    /\ pc[p] = "idle"
    /\ \E got \in S3Get(bucket, makeKey(locksPrefix, repo)) :
         IF got.err # ""
         THEN /\ Return(p, [Ret("DeleteLock", makeKey(locksPrefix, repo))
                               EXCEPT !.err = got.err])
              /\ UNCHANGED locks
         ELSE LET read == JsonUnmarshal(got.doc, NilSlice)
                  scan == DeleteScan(read.elems, 1, user, id, force, ZeroLock, <<>>)
              IN  IF scan.err # ""
                  THEN /\ Return(p, [Ret("DeleteLock", makeKey(locksPrefix, repo))
                                    EXCEPT !.err = scan.err])
                       /\ UNCHANGED locks
                  ELSE IF scan.lock.Id = ""
                  THEN /\ Return(p, Ret("DeleteLock", makeKey(locksPrefix, repo)))
                       /\ UNCHANGED locks
                  ELSE /\ pc' = [pc EXCEPT ![p] = "delCommit"]
                       /\ key' = [key EXCEPT ![p] = makeKey(locksPrefix, repo)]
                       /\ locks' = [locks EXCEPT ![p] = Slice(scan.newLocks)]
                       /\ deleted' = [deleted EXCEPT ![p] = PtrTo(scan.lock)]
                       /\ UNCHANGED <<added, moved, ret>>
    /\ missed' = [missed EXCEPT ![p] = {}]
    /\ UNCHANGED <<bucket, gone>>

\* A DeleteLock that uploads the reduced collection also when it is empty.
DeleteLockRewritesEmpty(p) ==
    /\ pc[p] = "delCommit"
    /\ Len(locks[p].elems) = 0
    /\ bucket' = S3Put(bucket, key[p], JsonMarshal(locks[p]))
    /\ Return(p, [Ret("DeleteLock", key[p]) EXCEPT !.lock = deleted[p],
                               !.lost = missed[p]])
    /\ missed' = MissedAfter(p)
    /\ gone' = GoneAfterDelete(p)

\* Lines 463-465: no lock is left, so the document is deleted.
DeleteLockDelete(p) ==
    /\ pc[p] = "delCommit"
    /\ Len(locks[p].elems) = 0
    /\ bucket' = S3Delete(bucket, key[p])
    /\ Return(p, [Ret("DeleteLock", key[p]) EXCEPT !.lock = deleted[p],
                               !.lost = missed[p]])
    /\ missed' = MissedAfter(p)
    /\ gone' = GoneAfterDelete(p)

\* Lines 467-473: the reduced collection is encoded and uploaded.
DeleteLockPut(p) ==
    /\ pc[p] = "delCommit"
    /\ Len(locks[p].elems) # 0
    /\ bucket' = S3Put(bucket, key[p], JsonMarshal(locks[p]))
    /\ Return(p, [Ret("DeleteLock", key[p]) EXCEPT !.lock = deleted[p],
                               !.lost = missed[p] \ Range(locks[p].elems)])
    /\ missed' = MissedAfter(p)
    /\ gone' = GoneAfterDelete(p)

\* Lines 464 and 471-473: the delete or the upload failing; the lock is
\* returned together with the error and the document stays as it was.
DeleteLockCommitFails(p) ==
    /\ pc[p] = "delCommit"
    /\ Return(p, [Ret("DeleteLock", key[p]) EXCEPT !.err = "s3", !.lock = deleted[p]])
    /\ missed' = [missed EXCEPT ![p] = {}]
    /\ UNCHANGED <<bucket, gone>>

-----------------------------------------------------------------------------
(* S3MetaStore.AllLocks.                                                   *)

\* The repository names, in the order a listing returns their keys.
RepoList == <<"r1", "r2">>

\* s3List(prefix): the keys present under the prefix, in listing order.
S3List(b, prefix, names) ==
    SelectSeq([i \in 1..Len(names) |-> makeKey(prefix, names[i])],
              LAMBDA k : k \in DOMAIN b)

\* Lines 542-545: each lock of the document under k, its Path rewritten.
Rewritten(k, elems) ==
    [i \in 1..Len(elems) |-> [elems[i] EXCEPT !.Path = k \o ":" \o @]]

RECURSIVE AllLocksFrom(_, _, _, _)
\* Lines 533-547: the loop over the listed keys from index i on, with the
\* local locks as it stands: the outcomes it can come to, as any download
\* may fail.
AllLocksFrom(b, keys, i, acc) ==
    IF i > Len(keys) THEN {[locks |-> acc, err |-> ""]}
    ELSE UNION {
           IF got.err # "" THEN {[locks |-> acc, err |-> got.err]}
           ELSE AllLocksFrom(b, keys, i + 1,
                    GoAppend(acc, Rewritten(keys[i],
                                            JsonUnmarshal(got.doc, NilSlice).elems)))
           : got \in S3Get(b, keys[i]) }

\* Lines 526-548: what AllLocks can return on bucket b.
AllLocksOn(b) ==
    {[locks |-> NilSlice, err |-> "s3"]}
    \cup AllLocksFrom(b, S3List(b, locksPrefix, RepoList), 1, NilSlice)

-----------------------------------------------------------------------------
(* S3MetaStore.FilteredLocks.                                              *)

\* locks[i:] and locks[:n] in Go's 0-based indices: slicing a nil slice
\* gives nil, slicing any other slice gives a slice.
SliceFrom(ls, i) == [isNil |-> ls.isNil, elems |-> SubSeq(ls.elems, i + 1, Len(ls.elems))]
SliceTo(ls, n) == [isNil |-> ls.isNil, elems |-> SubSeq(ls.elems, 1, n)]

\* strconv.Atoi on the limit strings of the model: the decimal numerals
\* parse to their value, anything else is an error.
Numerals == -1..(MaxLimit + 1)
Atoi(str) ==
    IF \E n \in Numerals : ToString(n) = str
    THEN [err |-> "", size |-> CHOOSE n \in Numerals : ToString(n) = str]
    ELSE [err |-> "invalid syntax", size |-> 0]

Min(a, b) == IF a < b THEN a ELSE b

RECURSIVE LastSeen(_, _, _)
\* Lines 383-389: the 0-based index of the first lock from index i on whose
\* Id is the cursor, or -1.
LastSeen(ls, cursor, i) ==
    IF i >= Len(ls) THEN -1
    ELSE IF ls[i + 1].Id = cursor THEN i
    ELSE LastSeen(ls, cursor, i + 1)

\* A cursor step that resumes after the lock the cursor names.
CursorStepAfter(ls, cursor) ==
    IF cursor = "" THEN [locks |-> ls, err |-> ""]
    ELSE IF LastSeen(ls.elems, cursor, 0) > -1
         THEN [locks |-> SliceFrom(ls, LastSeen(ls.elems, cursor, 0) + 1), err |-> ""]
         ELSE [locks |-> ls, err |-> "cursor (" \o cursor \o ") not found"]

\* Lines 382-397: the cursor step.
CursorStep(ls, cursor) ==
    IF cursor = "" THEN [locks |-> ls, err |-> ""]
    ELSE IF LastSeen(ls.elems, cursor, 0) > -1
         THEN [locks |-> SliceFrom(ls, LastSeen(ls.elems, cursor, 0)), err |-> ""]
         ELSE [locks |-> ls, err |-> "cursor (" \o cursor \o ") not found"]

\* Lines 399-408: the path step; filtered starts nil and is appended to.
PathStep(ls, path) ==
    IF path = "" THEN ls
    ELSE LET filtered == SelectSeq(ls.elems, LAMBDA l : l.Path = path)
         IN  IF Len(filtered) = 0 THEN NilSlice ELSE Slice(filtered)

\* Lines 410-426: the limit step.
LimitStep(ls, limit) ==
    IF limit = "" THEN [locks |-> ls, next |-> "", err |-> ""]
    ELSE IF Atoi(limit).err # "" \/ Atoi(limit).size < 0
         THEN [locks |-> Slice(<<>>), next |-> "",
               err |-> "Invalid limit amount: " \o limit]
         ELSE LET size == Min(Atoi(limit).size, Len(ls.elems))
              IN  [locks |-> SliceTo(ls, size),
                   next |-> IF size + 1 < Len(ls.elems) THEN ls.elems[size + 1].Id ELSE "",
                   err |-> ""]

\* Lines 376-427: FilteredLocks on the slice Locks returned.
FilteredLocksOn(read, path, cursor, limit) ==
    LET c == CursorStep(read, cursor)
    IN  IF c.err # "" THEN [locks |-> c.locks, next |-> "", err |-> c.err]
        ELSE LimitStep(PathStep(c.locks, path), limit)

NoFret ==
    [locks |-> NilSlice, next |-> "", err |-> "", called |-> FALSE,
     cursor |-> "", read |-> NilSlice, afterCursor |-> NilSlice]

\* One call FilteredLocks(repo, path, cursor, limit) by a client that pages:
\* it keeps repo, path and limit, passes the cursor the call before
\* returned, and collects the locks it is given until next comes back empty
\* (or until it holds more locks than any collection has).
FilteredLocks(repo) ==
    /\ pager.pc = "call"
    /\ Len(pager.got) <= MaxColl
    /\ \E got \in S3Get(bucket, makeKey(locksPrefix, repo)) :
         LET read == LocksOf(got)
             r == FilteredLocksOn(read, pager.path, pager.cursor, pager.limit)
         IN  /\ fret' = [locks |-> r.locks, next |-> r.next, err |-> r.err,
                         called |-> TRUE, cursor |-> pager.cursor, read |-> read,
                         afterCursor |-> CursorStep(read, pager.cursor).locks]
             /\ pager' = [pager EXCEPT
                   !.pc = IF r.err # "" THEN "failed"
                          ELSE IF r.next = "" THEN "done" ELSE "call",
                   !.cursor = r.next,
                   !.got = IF r.err # "" THEN @ ELSE @ \o r.locks.elems,
                   !.clean = @ /\ read.elems = Stored(repo)]
    /\ UNCHANGED <<bucket, lockVars, contentVars, listenerVars, metaVars, call>>

-----------------------------------------------------------------------------
(* The collections FilteredLocks is run on: up to MaxColl locks in         *)
(* ascending LockedAt order, each with an Id of its own or the Id of the   *)
(* second, on alternating paths.                                           *)

IdTable == <<"a", "b", "c", "d", "e", "f", "g", "h">>

FilterLock(i, own) ==
    [Id |-> IF own THEN IdTable[i] ELSE IdTable[2],
     Path |-> IF i % 2 = 1 THEN "p" ELSE "q",
     Owner |-> [Name |-> "alice"],
     LockedAt |-> i]

FilterCollections ==
    { [i \in 1..Len(own) |-> FilterLock(i, own[i])] : own \in SeqsUpTo(BOOLEAN, MaxColl) }

-----------------------------------------------------------------------------
(* S3ContentStore.                                                         *)

blobPrefix == "blobs"

errSizeMismatch == "SizeMismatch"
errHashMismatch == "HashMismatch"

Bytes == {0, 1}
Contents == SeqsUpTo(Bytes, MaxContent)

RECURSIVE Numbering(_)
\* The bytes written to the digest, as one number.
Numbering(b) ==
    IF Len(b) = 0 THEN 1 ELSE 2 * Numbering(SubSeq(b, 1, Len(b) - 1)) + b[Len(b)]

\* digest.Sum(nil) after the bytes b were written to sha256.New(): a fixed
\* function of b, one byte wide here, that tells the contents apart.
Sha256Sum(b) == (Numbering(b) * 167 + 89) % 256

HexDigits == <<"0", "1", "2", "3", "4", "5", "6", "7",
               "8", "9", "a", "b", "c", "d", "e", "f">>

\* hex.EncodeToString: two lowercase digits per byte.
HexEncodeToString(n) == HexDigits[(n \div 16) + 1] \o HexDigits[(n % 16) + 1]

\* The metas Put is called with: the oids of the contents and one that is
\* no digest, with every size a content can have.
Oids == { HexEncodeToString(Sha256Sum(b)) : b \in Contents } \cup {"zz"}
Metas == [Oid : Oids, Size : 0..MaxContent]

\* The key a blob is stored under.
transformKey(oid) == oid

BlobKey(meta) == makeKey(blobPrefix, transformKey(meta.Oid))

\* A Put that compares the size alone.
VerifySizeOnly(meta, b) ==
    IF Len(b) # meta.Size THEN errSizeMismatch ELSE ""

\* The two checks the other way round: the digest first, then the size.
VerifyHashFirst(meta, b) ==
    IF HexEncodeToString(Sha256Sum(b)) # meta.Oid THEN errHashMismatch
    ELSE IF Len(b) # meta.Size THEN errSizeMismatch
    ELSE ""

\* Lines 102-109: the size check, then the digest check.
Verify(meta, b) ==
    IF Len(b) # meta.Size THEN errSizeMismatch
    ELSE IF HexEncodeToString(Sha256Sum(b)) # meta.Oid THEN errHashMismatch
    ELSE ""

NoMeta == [Oid |-> "", Size |-> 0]
NoCret == [op |-> "", err |-> ""]

ContentReturn(p, r) ==
    /\ cpc' = [cpc EXCEPT ![p] = "idle"]
    /\ cmeta' = [cmeta EXCEPT ![p] = NoMeta]
    /\ cbuf' = [cbuf EXCEPT ![p] = <<>>]
    /\ cret' = r

\* Lines 97-100: reading r fails, and the error is returned.
ContentPutReadFails(p, meta) ==
    /\ cpc[p] = "idle"
    /\ ContentReturn(p, [op |-> "Put", err |-> "read"])
    /\ UNCHANGED <<bucket, wrote>>

\* A Put that uploads buf once the size is right and compares the digest
\* after that.
ContentPutUploadsFirst(p, meta, b) ==
    /\ cpc[p] = "idle"
    /\ IF Len(b) # meta.Size
       THEN /\ ContentReturn(p, [op |-> "Put", err |-> errSizeMismatch])
            /\ UNCHANGED <<bucket, wrote>>
       ELSE IF HexEncodeToString(Sha256Sum(b)) # meta.Oid
       THEN /\ bucket' = S3Put(bucket, BlobKey(meta), [bytes |-> b])
            /\ wrote' = S3Put(wrote, BlobKey(meta), meta)
            /\ ContentReturn(p, [op |-> "Put", err |-> errHashMismatch])
       ELSE /\ cpc' = [cpc EXCEPT ![p] = "upload"]
            /\ cmeta' = [cmeta EXCEPT ![p] = meta]
            /\ cbuf' = [cbuf EXCEPT ![p] = b]
            /\ UNCHANGED <<bucket, wrote, cret>>

\* Lines 90-109: r is read to its end into buf and the digest, and the
\* size and the digest are checked.
ContentPutVerify(p, meta, b) ==
    /\ cpc[p] = "idle"
    /\ IF Verify(meta, b) # ""
       THEN ContentReturn(p, [op |-> "Put", err |-> Verify(meta, b)])
       ELSE /\ cpc' = [cpc EXCEPT ![p] = "upload"]
            /\ cmeta' = [cmeta EXCEPT ![p] = meta]
            /\ cbuf' = [cbuf EXCEPT ![p] = b]
            /\ UNCHANGED cret
    /\ UNCHANGED <<bucket, wrote>>

\* Lines 111-121: the upload of buf under the key, succeeding.
ContentPutUpload(p) ==
    /\ cpc[p] = "upload"
    /\ bucket' = S3Put(bucket, BlobKey(cmeta[p]), [bytes |-> cbuf[p]])
    /\ wrote' = S3Put(wrote, BlobKey(cmeta[p]), cmeta[p])
    /\ ContentReturn(p, [op |-> "Put", err |-> ""])

\* Lines 112-119: the upload failing; nothing is stored.
ContentPutUploadFails(p) ==
    /\ cpc[p] = "upload"
    /\ ContentReturn(p, [op |-> "Put", err |-> "s3"])
    /\ UNCHANGED <<bucket, wrote>>

\* Lines 125-138: what Exists(meta) can return: false when HeadObject
\* fails, which it does for an absent key and may do for any.
ExistsOn(b, meta) ==
    {FALSE} \cup (IF BlobKey(meta) \in DOMAIN b THEN {TRUE} ELSE {})

Exists(meta) == ExistsOn(bucket, meta)

ContentInit ==
    /\ cpc = [p \in Procs |-> "idle"]
    /\ cmeta = [p \in Procs |-> NoMeta]
    /\ cbuf = [p \in Procs |-> <<>>]
    /\ cret = NoCret
    /\ wrote = [x \in {} |-> NoMeta]

-----------------------------------------------------------------------------
(* S3MetaStore: the object records.                                        *)

\* gob: the encoding holds the fields that are not zero, and Existing is
\* false in every record Put encodes, so Oid and Size are what is stored.
GobEncode(meta) == [gob |-> <<meta.Oid, meta.Size>>]
GobDecode(buf) == [Oid |-> buf.gob[1], Size |-> buf.gob[2], Existing |-> FALSE]

NoMetaObject == [Oid |-> "", Size |-> 0, Existing |-> FALSE]
NoMret == [op |-> "", err |-> "", isNil |-> TRUE, meta |-> NoMetaObject]

\* The oids the object records are kept for.
MetaOids == { HexEncodeToString(Sha256Sum(<<>>)), HexEncodeToString(Sha256Sum(<<0>>)), "zz" }
RequestVarsSet == [Oid : MetaOids, Size : 0..MaxContent]

\* Lines 287-303: what UnsafeGet(v), and so Get(v), can return on bucket b.
UnsafeGet(b, v) ==
    { IF got.err # "" THEN [isNil |-> TRUE, meta |-> NoMetaObject, err |-> got.err]
      ELSE [isNil |-> FALSE, meta |-> GobDecode(got.doc), err |-> ""]
      : got \in S3Get(b, makeKey(objectsPrefix, v.Oid)) }

MetaReturn(p, r) ==
    /\ mpc' = [mpc EXCEPT ![p] = "idle"]
    /\ mmeta' = [mmeta EXCEPT ![p] = NoMetaObject]
    /\ mret' = r

\* Lines 308-315: Put looks the record up; when Get returns no error the
\* record is returned with Existing set, on any error a new one is made.
MetaPutGet(p, v) ==
    /\ mpc[p] = "idle"
    /\ \E got \in UnsafeGet(bucket, v) :
         IF got.err = ""
         THEN MetaReturn(p, [op |-> "Put", err |-> "", isNil |-> FALSE,
                             meta |-> [got.meta EXCEPT !.Existing = TRUE]])
         ELSE /\ mpc' = [mpc EXCEPT ![p] = "put"]
              /\ mmeta' = [mmeta EXCEPT ![p] =
                              [Oid |-> v.Oid, Size |-> v.Size, Existing |-> FALSE]]
              /\ UNCHANGED mret
    /\ UNCHANGED <<bucket, sized>>

\* Lines 316-327: the new record is encoded and uploaded, and returned.
MetaPutUpload(p) ==
    /\ mpc[p] = "put"
    /\ bucket' = S3Put(bucket, makeKey(objectsPrefix, mmeta[p].Oid), GobEncode(mmeta[p]))
    /\ sized' = IF makeKey(objectsPrefix, mmeta[p].Oid) \in DOMAIN bucket THEN sized
                ELSE S3Put(sized, makeKey(objectsPrefix, mmeta[p].Oid), mmeta[p].Size)
    /\ MetaReturn(p, [op |-> "Put", err |-> "", isNil |-> FALSE, meta |-> mmeta[p]])

\* Lines 322-325: the upload failing.
MetaPutUploadFails(p) ==
    /\ mpc[p] = "put"
    /\ MetaReturn(p, [NoMret EXCEPT !.op = "Put", !.err = "s3"])
    /\ UNCHANGED <<bucket, sized>>

\* A Delete that takes the blob of the oid along.
MetaDeleteCascading(p, v) ==
    /\ mpc[p] = "idle"
    /\ bucket' = S3Delete(S3Delete(bucket, makeKey(objectsPrefix, v.Oid)),
                          makeKey(blobPrefix, transformKey(v.Oid)))
    /\ sized' = S3Delete(sized, makeKey(objectsPrefix, v.Oid))
    /\ MetaReturn(p, [NoMret EXCEPT !.op = "Delete"])

\* Lines 331-334: Delete, the remote delete succeeding (as it does for a
\* key that is absent).
MetaDelete(p, v) ==
    /\ mpc[p] = "idle"
    /\ bucket' = S3Delete(bucket, makeKey(objectsPrefix, v.Oid))
    /\ sized' = S3Delete(sized, makeKey(objectsPrefix, v.Oid))
    /\ MetaReturn(p, [NoMret EXCEPT !.op = "Delete"])

\* Line 333: the remote delete failing.
MetaDeleteFails(p, v) ==
    /\ mpc[p] = "idle"
    /\ MetaReturn(p, [NoMret EXCEPT !.op = "Delete", !.err = "s3"])
    /\ UNCHANGED <<bucket, sized>>

MetaIdle ==
    /\ mpc = [p \in Procs |-> "idle"]
    /\ mmeta = [p \in Procs |-> NoMetaObject]
    /\ mret = NoMret
    /\ sized = [x \in {} |-> 0]

-----------------------------------------------------------------------------
(* main, the tracking listener and the TLS listener.                       *)

Conns == 1..MaxConns

NoConn == [state |-> "none", tracked |-> FALSE, keepAlive |-> FALSE, late |-> FALSE]

\* TrackingListener.Accept, the listener Serve is given when no certificate
\* is configured: the connection is registered at accept time.
TrackingAccept(c) ==
    /\ mainpc = "serve"
    /\ ~useTls
    /\ listening
    /\ conns[c].state = "none"
    /\ conns' = [conns EXCEPT ![c] = [state |-> "open", tracked |-> TRUE,
                                      keepAlive |-> TRUE, late |-> ~listening]]
    /\ inflight' = inflight + 1
    /\ UNCHANGED <<useTls, listening, mainpc>>

\* Lines 36-44 under lines 61-63: the TLS listener accepts from
\* tcpKeepAliveListener, which accepts from the raw listener taken out of
\* the tracking listener.
tcpKeepAliveAccept(c) ==
    /\ mainpc = "serve"
    /\ useTls
    /\ listening
    /\ conns[c].state = "none"
    /\ conns' = [conns EXCEPT ![c] = [state |-> "open", tracked |-> FALSE,
                                      keepAlive |-> TRUE, late |-> ~listening]]
    /\ UNCHANGED <<useTls, listening, inflight, mainpc>>

\* A connection finishes and closes; a registered one is deregistered.
ConnClose(c) ==
    /\ mainpc # "exited"
    /\ conns[c].state = "open"
    /\ conns' = [conns EXCEPT ![c].state = "closed"]
    /\ inflight' = IF conns[c].tracked THEN inflight - 1 ELSE inflight
    /\ UNCHANGED <<useTls, listening, mainpc>>

\* Lines 108-116: SIGHUP arrives and the handler closes the tracking
\* listener, which closes the raw listener.
Sighup ==
    /\ mainpc # "exited"
    /\ listening' = FALSE
    /\ UNCHANGED <<useTls, inflight, conns, mainpc>>

\* Line 157: Serve returns when Accept fails on the closed listener.
ServeReturns ==
    /\ mainpc = "serve"
    /\ ~listening
    /\ mainpc' = "wait"
    /\ UNCHANGED <<useTls, listening, inflight, conns>>

\* Lines 158-162: WaitForChildren returns once the counter is zero, main
\* returns and the process exits, which cuts every connection still open.
WaitForChildren ==
    /\ mainpc = "wait"
    /\ inflight = 0
    /\ mainpc' = "exited"
    /\ conns' = [c \in Conns |->
                   IF conns[c].state = "open"
                   THEN [conns[c] EXCEPT !.state = "cut"] ELSE conns[c]]
    /\ UNCHANGED <<useTls, listening, inflight>>

\* Lines 73-88 and 157: main has built its listener and is serving.
ListenerStart ==
    /\ listening = TRUE
    /\ inflight = 0
    /\ conns = [c \in Conns |-> NoConn]
    /\ mainpc = "serve"

ListenerIdle == useTls = FALSE /\ ListenerStart

-----------------------------------------------------------------------------
(* A lone caller: one call at a time, nothing else touching the bucket.    *)
(* The history variable call keeps the arguments of its last call and the  *)
(* bucket as it was when the call began.                                   *)

Caller == "p1"

NoCall ==
    [op |-> "", repo |-> "", user |-> "", id |-> "", force |-> FALSE, l |-> <<>>,
     meta |-> NoMeta, bytes |-> <<>>, before |-> EmptyBucket,
     out |-> [locks |-> NilSlice, err |-> ""]]

CallIdle == call = NoCall

SerialAddLocks(repo, l) ==
    /\ AddLocksRead(Caller, repo, l)
    /\ call' = [NoCall EXCEPT !.op = "AddLocks", !.repo = repo, !.l = l,
                               !.before = bucket]

SerialDeleteLock(repo, user, id, force) ==
    /\ DeleteLockRead(Caller, repo, user, id, force)
    /\ call' = [NoCall EXCEPT !.op = "DeleteLock", !.repo = repo, !.user = user,
                               !.id = id, !.force = force, !.before = bucket]

SerialContentPut(meta, b) ==
    /\ ContentPutVerify(Caller, meta, b)
    /\ call' = [NoCall EXCEPT !.op = "ContentPut", !.meta = meta, !.bytes = b,
                               !.before = bucket]

\* The reader breaks off: the call was not given a whole content.
SerialContentPutReadFails(meta) ==
    /\ ContentPutReadFails(Caller, meta)
    /\ call' = [NoCall EXCEPT !.op = "ContentPutCut", !.meta = meta, !.before = bucket]

SerialMetaPut(v) ==
    /\ MetaPutGet(Caller, v)
    /\ call' = [NoCall EXCEPT !.op = "MetaPut", !.meta = v, !.before = bucket]

SerialMetaDelete(v) ==
    /\ MetaDelete(Caller, v)
    /\ call' = [NoCall EXCEPT !.op = "MetaDelete", !.meta = v, !.before = bucket]

SerialMetaDeleteFails(v) ==
    /\ MetaDeleteFails(Caller, v)
    /\ call' = [NoCall EXCEPT !.op = "MetaDelete", !.meta = v, !.before = bucket]

\* AllLocks reads only, so one step covers the call.
AllLocks ==
    /\ pc[Caller] = "idle"
    /\ \E r \in AllLocksOn(bucket) :
         call' = [NoCall EXCEPT !.op = "AllLocks", !.before = bucket, !.out = r]
    /\ UNCHANGED <<bucket, lockVars>>

-----------------------------------------------------------------------------

LocksInit ==
    /\ pc = [p \in Procs |-> "idle"]
    /\ key = [p \in Procs |-> ""]
    /\ locks = [p \in Procs |-> NilSlice]
    /\ deleted = [p \in Procs |-> NilPtr]
    /\ added = [p \in Procs |-> {}]
    /\ moved = [p \in Procs |-> FALSE]
    /\ missed = [p \in Procs |-> {}]
    /\ ret = NoRet
    /\ gone = {}

FilterIdle ==
    /\ pager = [pc |-> "off", path |-> "", limit |-> "", start |-> "", cursor |-> "",
                got |-> <<>>, clean |-> TRUE]
    /\ fret = NoFret

Init ==
    /\ bucket = EmptyBucket
    /\ LocksInit
    /\ FilterIdle
    /\ ContentInit
    /\ ListenerIdle
    /\ CallIdle
    /\ MetaIdle

Next ==
    \/ \E p \in Procs, repo \in Repos, l \in SeqsUpTo(LockUniverse, MaxNew) :
         AddLocksRead(p, repo, l) /\ UNCHANGED <<filterVars, contentVars, listenerVars, metaVars, call>>
    \/ \E p \in Procs : AddLocksPut(p) /\ UNCHANGED <<filterVars, contentVars, listenerVars, metaVars, call>>
    \/ \E p \in Procs : AddLocksPutFails(p) /\ UNCHANGED <<filterVars, contentVars, listenerVars, metaVars, call>>
    \/ \E p \in Procs, repo \in Repos, user \in Users, id \in LockIds, force \in BOOLEAN :
         DeleteLockRead(p, repo, user, id, force) /\ UNCHANGED <<filterVars, contentVars, listenerVars, metaVars, call>>
    \/ \E p \in Procs : DeleteLockDelete(p) /\ UNCHANGED <<filterVars, contentVars, listenerVars, metaVars, call>>
    \/ \E p \in Procs : DeleteLockPut(p) /\ UNCHANGED <<filterVars, contentVars, listenerVars, metaVars, call>>
    \/ \E p \in Procs : DeleteLockCommitFails(p) /\ UNCHANGED <<filterVars, contentVars, listenerVars, metaVars, call>>

Spec == Init /\ [][Next]_vars

-----------------------------------------------------------------------------
(* FilteredLocks on its own: the bucket holds no document, the null         *)
(* document or one of the collections, and a client pages through it.      *)

FilterPaths == {"", "p", "q"}
FilterCursors == {"", "zz"} \cup { IdTable[i] : i \in 1..MaxColl }
FilterLimits == {"", "x"} \cup { ToString(n) : n \in -1..MaxLimit }

FilterBuckets ==
    {EmptyBucket}
    \cup { S3Put(EmptyBucket, makeKey(locksPrefix, "r1"), JsonMarshal(NilSlice)) }
    \cup { S3Put(EmptyBucket, makeKey(locksPrefix, "r1"), JsonMarshal(Slice(c))) :
             c \in FilterCollections \ {<<>>} }

FilterInit ==
    /\ bucket \in FilterBuckets
    /\ LocksInit
    /\ \E path \in FilterPaths, limit \in FilterLimits, cursor \in FilterCursors :
         pager = [pc |-> "call", path |-> path, limit |-> limit, start |-> cursor,
                  cursor |-> cursor, got |-> <<>>, clean |-> TRUE]
    /\ fret = NoFret
    /\ ContentInit
    /\ ListenerIdle
    /\ CallIdle
    /\ MetaIdle

FilterNext ==
    \/ \E repo \in Repos : FilteredLocks(repo)

SpecFilter == FilterInit /\ [][FilterNext]_vars

-----------------------------------------------------------------------------
(* The content store on its own: callers put contents into an empty bucket. *)

ContentNext ==
    \/ \E p \in Procs, meta \in Metas : 
         ContentPutReadFails(p, meta) /\ UNCHANGED <<lockVars, filterVars, listenerVars, metaVars, call>>
    \/ \E p \in Procs, meta \in Metas, b \in Contents :
         ContentPutVerify(p, meta, b) /\ UNCHANGED <<lockVars, filterVars, listenerVars, metaVars, call>>
    \/ \E p \in Procs : ContentPutUpload(p) /\ UNCHANGED <<lockVars, filterVars, listenerVars, metaVars, call>>
    \/ \E p \in Procs : ContentPutUploadFails(p) /\ UNCHANGED <<lockVars, filterVars, listenerVars, metaVars, call>>

SpecContent == Init /\ [][ContentNext]_vars

-----------------------------------------------------------------------------
(* The process and its listener on their own, with and without TLS.        *)

ListenerInit ==
    /\ bucket = EmptyBucket
    /\ LocksInit
    /\ FilterIdle
    /\ ContentInit
    /\ useTls \in BOOLEAN
    /\ ListenerStart
    /\ CallIdle
    /\ MetaIdle

ListenerNext ==
    \/ \E c \in Conns :
         TrackingAccept(c) /\ UNCHANGED <<bucket, lockVars, filterVars, contentVars, metaVars, call>>
    \/ \E c \in Conns :
         tcpKeepAliveAccept(c) /\ UNCHANGED <<bucket, lockVars, filterVars, contentVars, metaVars, call>>
    \/ \E c \in Conns :
         ConnClose(c) /\ UNCHANGED <<bucket, lockVars, filterVars, contentVars, metaVars, call>>
    \/ Sighup /\ UNCHANGED <<bucket, lockVars, filterVars, contentVars, metaVars, call>>
    \/ ServeReturns /\ UNCHANGED <<bucket, lockVars, filterVars, contentVars, metaVars, call>>
    \/ WaitForChildren /\ UNCHANGED <<bucket, lockVars, filterVars, contentVars, metaVars, call>>

SpecListener == ListenerInit /\ [][ListenerNext]_vars

-----------------------------------------------------------------------------
(* The lock manager used by a lone caller, with a second lock of Id "a"    *)
(* that bob owns.  The caller works on r1; a second repository, r2, may    *)
(* hold a collection from the start.                                       *)

SerialLocks ==
    LockUniverse \cup
    { [Id |-> "a", Path |-> "q", Owner |-> [Name |-> "bob"], LockedAt |-> 3] }

SerialBuckets ==
    { EmptyBucket,
      S3Put(EmptyBucket, makeKey(locksPrefix, "r2"),
            JsonMarshal(Slice(<<[Id |-> "c", Path |-> "p", Owner |-> [Name |-> "bob"],
                                 LockedAt |-> 1]>>))) }

SerialInit ==
    /\ bucket \in SerialBuckets
    /\ LocksInit
    /\ FilterIdle
    /\ ContentInit
    /\ ListenerIdle
    /\ CallIdle
    /\ MetaIdle

SerialNext ==
    \/ \E repo \in Repos, l \in SeqsUpTo(SerialLocks, MaxNew) :
         SerialAddLocks(repo, l) /\ UNCHANGED <<filterVars, contentVars, listenerVars, metaVars>>
    \/ AddLocksPut(Caller) /\ UNCHANGED <<filterVars, contentVars, listenerVars, metaVars, call>>
    \/ AddLocksPutFails(Caller) /\ UNCHANGED <<filterVars, contentVars, listenerVars, metaVars, call>>
    \/ \E repo \in Repos, user \in Users, id \in LockIds, force \in BOOLEAN :
         SerialDeleteLock(repo, user, id, force)
         /\ UNCHANGED <<filterVars, contentVars, listenerVars, metaVars>>
    \/ DeleteLockDelete(Caller) /\ UNCHANGED <<filterVars, contentVars, listenerVars, metaVars, call>>
    \/ DeleteLockPut(Caller) /\ UNCHANGED <<filterVars, contentVars, listenerVars, metaVars, call>>
    \/ DeleteLockCommitFails(Caller)
         /\ UNCHANGED <<filterVars, contentVars, listenerVars, metaVars, call>>
    \/ AllLocks /\ UNCHANGED <<filterVars, contentVars, listenerVars, metaVars>>

SpecSerial == SerialInit /\ [][SerialNext]_vars

-----------------------------------------------------------------------------
(* The content store used by a lone caller.                                *)

ContentSerialNext ==
    \/ \E meta \in Metas, b \in Contents :
         SerialContentPut(meta, b)
         /\ UNCHANGED <<lockVars, filterVars, listenerVars, metaVars>>
    \/ \E meta \in Metas :
         SerialContentPutReadFails(meta)
         /\ UNCHANGED <<lockVars, filterVars, listenerVars, metaVars>>
    \/ ContentPutUpload(Caller)
         /\ UNCHANGED <<lockVars, filterVars, listenerVars, metaVars, call>>
    \/ ContentPutUploadFails(Caller)
         /\ UNCHANGED <<lockVars, filterVars, listenerVars, metaVars, call>>

SpecContentSerial == Init /\ [][ContentSerialNext]_vars

-----------------------------------------------------------------------------
(* The object records used by a lone caller, in a bucket that may hold a   *)
(* blob and a lock collection from the start.                              *)

MetaBuckets ==
    { EmptyBucket,
      S3Put(S3Put(EmptyBucket, makeKey(locksPrefix, "r2"),
                  JsonMarshal(Slice(<<CHOOSE l \in LockUniverse : l.Id = "b">>))),
            makeKey(blobPrefix, transformKey(HexEncodeToString(Sha256Sum(<<>>)))),
            [bytes |-> <<>>]) }

MetaInit ==
    /\ bucket \in MetaBuckets
    /\ LocksInit
    /\ FilterIdle
    /\ ContentInit
    /\ ListenerIdle
    /\ CallIdle
    /\ MetaIdle

MetaNext ==
    \/ \E v \in RequestVarsSet :
         SerialMetaPut(v) /\ UNCHANGED <<lockVars, filterVars, contentVars, listenerVars>>
    \/ MetaPutUpload(Caller)
         /\ UNCHANGED <<lockVars, filterVars, contentVars, listenerVars, call>>
    \/ MetaPutUploadFails(Caller)
         /\ UNCHANGED <<lockVars, filterVars, contentVars, listenerVars, call>>
    \/ \E v \in RequestVarsSet :
         SerialMetaDelete(v) /\ UNCHANGED <<lockVars, filterVars, contentVars, listenerVars>>
    \/ \E v \in RequestVarsSet :
         SerialMetaDeleteFails(v)
         /\ UNCHANGED <<lockVars, filterVars, contentVars, listenerVars>>

SpecMeta == MetaInit /\ [][MetaNext]_vars

-----------------------------------------------------------------------------
(* The object records used by callers whose calls overlap.                 *)

MetaRaceNext ==
    \/ \E p \in Procs, v \in RequestVarsSet :
         MetaPutGet(p, v)
         /\ UNCHANGED <<lockVars, filterVars, contentVars, listenerVars, call>>
    \/ \E p \in Procs :
         MetaPutUpload(p)
         /\ UNCHANGED <<lockVars, filterVars, contentVars, listenerVars, call>>
    \/ \E p \in Procs :
         MetaPutUploadFails(p)
         /\ UNCHANGED <<lockVars, filterVars, contentVars, listenerVars, call>>
    \/ \E p \in Procs, v \in RequestVarsSet :
         MetaDelete(p, v)
         /\ UNCHANGED <<lockVars, filterVars, contentVars, listenerVars, call>>
    \/ \E p \in Procs, v \in RequestVarsSet :
         MetaDeleteFails(p, v)
         /\ UNCHANGED <<lockVars, filterVars, contentVars, listenerVars, call>>

SpecMetaRace == MetaInit /\ [][MetaRaceNext]_vars

-----------------------------------------------------------------------------
(* The lock manager's claims.                                              *)

SortedByLockedAt(s) ==
    \A i, j \in 1..Len(s) : i < j => s[i].LockedAt <= s[j].LockedAt

C5_NoEmptyLockDocument ==
    \A repo \in Repos : HasDoc(repo) => Len(Stored(repo)) > 0

\* C6: no stored lock collection holds two locks with the same Id.
C6_LockIdUnique ==
    \A repo \in Repos :
        \A i, j \in 1..Len(Stored(repo)) :
            i # j => Stored(repo)[i].Id # Stored(repo)[j].Id

\* C7: every stored lock collection is ordered ascending by LockedAt, and so
\* is every slice a call Locks(repo) can return.
C7_SortedCollection ==
    \A repo \in Repos :
        /\ SortedByLockedAt(Stored(repo))
        /\ \A out \in Locks(repo) : SortedByLockedAt(out.elems)

\* An AddLocks call whose sort moved a lock has stored a collection of
\* distinct timestamps, and Locks returns it.
C7_Witness ==
    /\ ret.op = "AddLocks"
    /\ ret.err = ""
    /\ ret.moved
    /\ \E out \in Locks("r1") :
         /\ Len(out.elems) >= 2
         /\ out.elems = StoredUnder(ret.key)
         /\ out.elems[1].LockedAt < out.elems[Len(out.elems)].LockedAt

-----------------------------------------------------------------------------
(* FilteredLocks' claims.                                                  *)

\* The position of the first lock of s whose Id is id.
FirstWithId(s, id) ==
    CHOOSE i \in 1..Len(s) : s[i].Id = id /\ \A j \in 1..(i - 1) : s[j].Id # id

\* What the cursor keeps of s: all of it without a cursor, else the first
\* lock with that Id and every later lock.
KeptByCursor(s, cursor) ==
    IF cursor = "" THEN s ELSE SubSeq(s, FirstWithId(s, cursor), Len(s))

\* What the path keeps of s.
KeptByPath(s, path) ==
    SelectSeq(s, LAMBDA l : path = "" \/ l.Path = path)

\* The limit the pager passes, as a number (when it is a numeral).
IsNumeral(str) == \E n \in 0..MaxLimit : ToString(n) = str
NumeralOf(str) == CHOOSE n \in 0..MaxLimit : ToString(n) = str

CursorNotFound(cursor) == "cursor (" \o cursor \o ") not found"

IdsUnique(s) == \A i, j \in 1..Len(s) : i # j => s[i].Id # s[j].Id

\* C8: a call with a valid limit n that succeeds returns the first n of the
\* cursor- and path-filtered locks (all of them when there are fewer), and
\* nextCursor is the Id of the filtered lock after those when there is one
\* (also when exactly one is left), and empty otherwise.
C8_NextCursor ==
    (fret.called /\ fret.err = "" /\ IsNumeral(pager.limit)) =>
        LET f == KeptByPath(KeptByCursor(fret.read.elems, fret.cursor), pager.path)
            n == NumeralOf(pager.limit)
        IN  /\ Len(fret.locks.elems) <= n
            /\ fret.locks.elems = SubSeq(f, 1, Min(n, Len(f)))
            /\ fret.next = IF Len(f) > n THEN f[n + 1].Id ELSE ""

\* C9: a client that starts with an empty cursor and a limit n >= 1, and
\* pages until nextCursor comes back empty over an unchanged collection of
\* distinct Ids that every call read in full, has collected exactly the
\* locks matching the path, each once and in collection order.
C9_PaginationCovers ==
    (/\ pager.pc = "done"
     /\ pager.start = ""
     /\ IsNumeral(pager.limit) /\ NumeralOf(pager.limit) >= 1
     /\ pager.clean
     /\ IdsUnique(Stored("r1")))
    => pager.got = KeptByPath(Stored("r1"), pager.path)

-----------------------------------------------------------------------------
(* The content store's claims.                                             *)

BlobKeys == { makeKey(blobPrefix, transformKey(oid)) : oid \in Oids }

\* C1: every blob stored under the key derived from an oid has content
\* whose hex digest is that oid and whose length is the Size of the meta
\* given to the Put that uploaded it; and a Put that has reached its upload
\* holds a buffer that passed the size check and the digest check.
C1_ContentIntegrity ==
    /\ \A oid \in Oids :
         LET k == makeKey(blobPrefix, transformKey(oid))
         IN  k \in DOMAIN bucket =>
               /\ HexEncodeToString(Sha256Sum(bucket[k].bytes)) = oid
               /\ Len(bucket[k].bytes) = wrote[k].Size
               /\ wrote[k].Oid = oid
    /\ DOMAIN bucket \subseteq BlobKeys
    /\ \A p \in Procs :
         cpc[p] = "upload" =>
            /\ Len(cbuf[p]) = cmeta[p].Size
            /\ HexEncodeToString(Sha256Sum(cbuf[p])) = cmeta[p].Oid

\* Two blobs are stored, a third Put is about to upload, and the Put that
\* returned last was turned down for its digest.
C1_Witness ==
    /\ Cardinality(DOMAIN bucket) >= 2
    /\ \E p \in Procs : cpc[p] = "upload" /\ BlobKey(cmeta[p]) \notin DOMAIN bucket
    /\ cret.err = errHashMismatch

-----------------------------------------------------------------------------
(* The listener's claims.                                                  *)

\* C2: no connection is accepted after the shutdown signal has closed the
\* listener, and WaitForChildren does not return, nor the process exit,
\* while a connection accepted before the signal is open: when the process
\* has exited every accepted connection has closed and none was cut.
C2_GracefulDrain ==
    /\ \A c \in Conns : ~conns[c].late
    /\ mainpc = "exited" => \A c \in Conns : conns[c].state \in {"none", "closed"}

\* The same without TLS.
C2_GracefulDrainPlain == ~useTls => C2_GracefulDrain

\* C3: a connection accepted through the listener Serve is given, the TLS
\* listener included, is registered against the in-flight counter while it
\* is open and has keep-alive set, so that the counter is the number of the
\* open connections.
C3_TlsTracked ==
    /\ \A c \in Conns :
         conns[c].state = "open" => conns[c].tracked /\ conns[c].keepAlive
    /\ mainpc # "exited" =>
         inflight = Cardinality({ c \in Conns : conns[c].state = "open" })

\* The same without TLS.
C3_PlainTracked == ~useTls => C3_TlsTracked

-----------------------------------------------------------------------------
(* The lock manager's claims about one call by a lone caller.              *)

\* The collection stored for repo in bucket b.
StoredIn(b, repo) ==
    IF makeKey(locksPrefix, repo) \in DOMAIN b
    THEN b[makeKey(locksPrefix, repo)].elems ELSE <<>>

\* The caller's last call was op and has returned.
Returned(op) == call.op = op /\ pc[Caller] = "idle"

\* The collection the last call found, and its locks with the call's id.
Was == StoredIn(call.before, call.repo)
Hits == { i \in 1..Len(Was) : Was[i].Id = call.id }
WithoutId == SelectSeq(Was, LAMBDA l : l.Id # call.id)

\* b and c differ at most in the document of repo.
SameButFor(b, c, repo) ==
    \A k \in (DOMAIN b \cup DOMAIN c) \ {makeKey(locksPrefix, repo)} :
        k \in DOMAIN b /\ k \in DOMAIN c /\ b[k] = c[k]

\* C11: DeleteLock without force for an id that a lock of another owner
\* has fails with errNotOwner (unless the download failed), returns no lock
\* and leaves the bucket as it was; with force, or when the user owns the
\* locks of that id, it never fails with errNotOwner, and when it succeeds
\* it returns a lock of that id and the stored collection is the old one
\* without the locks of that id.
C11_DeleteLockOwnership ==
    Returned("DeleteLock") =>
      /\ (~call.force /\ \E i \in Hits : Was[i].Owner.Name # call.user) =>
            /\ ret.err \in {errNotOwner, "s3"}
            /\ ret.lock.isNil
            /\ bucket = call.before
      /\ (Hits # {} /\ (call.force \/ \A i \in Hits : Was[i].Owner.Name = call.user)) =>
            /\ ret.err # errNotOwner
            /\ ret.err = "" =>
                  /\ ~ret.lock.isNil
                  /\ ret.lock.lock.Id = call.id
                  /\ ret.lock.lock \in Range(Was)
                  /\ StoredIn(bucket, call.repo) = WithoutId
                  /\ SameButFor(bucket, call.before, call.repo)

\* alice was refused bob's lock in a collection of two, and the collection
\* is as it was.
C11_Witness ==
    /\ Returned("DeleteLock")
    /\ ~call.force
    /\ call.user = "alice"
    /\ ret.err = errNotOwner
    /\ Len(Was) = 2
    /\ \E i \in Hits : Was[i].Owner.Name = "bob"
    /\ StoredIn(bucket, call.repo) = Was

\* C12: DeleteLock with an id that no lock of the repository has, the
\* repository with no document included, returns nil and no error (unless
\* the download failed) and leaves the bucket as it was.
C12_DeleteMissingLock ==
    (Returned("DeleteLock") /\ Hits = {} /\ ret.err # "s3") =>
        /\ ret.err = ""
        /\ ret.lock.isNil
        /\ bucket = call.before

\* The same for the repositories that have a document.
C12_DeleteMissingLockOfDocument ==
    HasDoc(call.repo) => C12_DeleteMissingLock

\* C13: when DeleteLock succeeds and has removed the only lock of the
\* collection (or all of its locks), the document is gone, not rewritten
\* empty, and Locks(repo) then returns an empty slice.
C13_LastLockRemovesDocument ==
    (Returned("DeleteLock") /\ ret.err = "" /\ ~ret.lock.isNil /\ WithoutId = <<>>) =>
        /\ makeKey(locksPrefix, call.repo) \notin DOMAIN bucket
        /\ \A out \in Locks(call.repo) : out.elems = <<>>

\* The only lock of r1 was removed while r2 keeps its collection.
C13_Witness ==
    /\ Returned("DeleteLock")
    /\ ret.err = ""
    /\ ~ret.lock.isNil
    /\ Len(Was) = 1
    /\ ~HasDoc(call.repo)
    /\ HasDoc("r2")

\* C20: after a successful AddLocks(repo, l) by a lone caller the stored
\* collection holds every lock stored before the call and every lock of l,
\* also when the download of the existing document failed.
C20_AddLocksPreserves ==
    (Returned("AddLocks") /\ ret.err = "") =>
        /\ Range(Was) \subseteq Range(StoredIn(bucket, call.repo))
        /\ Range(call.l) \subseteq Range(StoredIn(bucket, call.repo))

\* The locks of s with name put before each Path.
PathsUnder(name, s) ==
    [i \in 1..Len(s) |-> [s[i] EXCEPT !.Path = name \o ":" \o @]]

RECURSIVE MergedByRepo(_, _)
\* The collections of the repositories from the i-th on, one after the
\* other, each lock under its repository's name.
MergedByRepo(b, i) ==
    IF i > Len(RepoList) THEN <<>>
    ELSE PathsUnder(RepoList[i], StoredIn(b, RepoList[i])) \o MergedByRepo(b, i + 1)

RECURSIVE MergedByKey(_, _)
\* The same, each lock under its document's key.
MergedByKey(b, i) ==
    IF i > Len(RepoList) THEN <<>>
    ELSE PathsUnder(makeKey(locksPrefix, RepoList[i]), StoredIn(b, RepoList[i]))
         \o MergedByKey(b, i + 1)

\* C18: a successful AllLocks returns every lock of every repository's
\* document with Path "<repo>:<path>", <repo> being the repository's name
\* without the storage prefix, and leaves the bucket as it was.
C18_AllLocksPathRewrite ==
    (call.op = "AllLocks" /\ call.out.err = "") =>
        /\ call.out.locks.elems = MergedByRepo(call.before, 1)
        /\ bucket = call.before

\* What holds instead: the Path is put under the document's key.
C18_AllLocksKeyRewrite ==
    (call.op = "AllLocks" /\ call.out.err = "") =>
        /\ call.out.locks.elems = MergedByKey(call.before, 1)
        /\ bucket = call.before

-----------------------------------------------------------------------------
(* The content store's claims about one call by a lone caller.             *)

\* The caller's last call was a Put that read its content and has returned.
ContentReturned == call.op = "ContentPut" /\ cpc[Caller] = "idle"

SizeRight == call.meta.Size = Len(call.bytes)
OidRight == call.meta.Oid = HexEncodeToString(Sha256Sum(call.bytes))

\* C15: Put(meta, b) with the oid and the size of b fails with no error
\* but the upload's, and once it has returned nil Exists(meta) returns
\* true.
C15_PutThenExists ==
    (ContentReturned /\ SizeRight /\ OidRight) =>
        /\ cret.err \in {"", "s3"}
        /\ cret.err = "" => \A found \in Exists(call.meta) : found

\* What holds instead: the blob is stored, and Exists returns true when
\* its HeadObject request succeeds.
C15_PutThenStored ==
    (ContentReturned /\ SizeRight /\ OidRight) =>
        /\ cret.err \in {"", "s3"}
        /\ cret.err = "" =>
              /\ BlobKey(call.meta) \in DOMAIN bucket
              /\ bucket[BlobKey(call.meta)].bytes = call.bytes
              /\ TRUE \in Exists(call.meta)

\* C16: Put(meta, b) with the size of b and an oid that is not b's digest
\* fails with errHashMismatch and leaves the bucket as it was, so that
\* Exists(meta), if it could only return false before, can only return
\* false after.
C16_HashMismatch ==
    (ContentReturned /\ SizeRight /\ ~OidRight) =>
        /\ cret.err = errHashMismatch
        /\ bucket = call.before
        /\ ExistsOn(call.before, call.meta) = {FALSE} => Exists(call.meta) = {FALSE}

\* A content was put under the oid of another content of its length, with
\* a blob stored already, and the oid has no blob.
C16_Witness ==
    /\ ContentReturned
    /\ SizeRight
    /\ call.meta.Oid \in { HexEncodeToString(Sha256Sum(b)) : b \in Contents }
    /\ cret.err = errHashMismatch
    /\ DOMAIN bucket # {}
    /\ Exists(call.meta) = {FALSE}

\* C17: Put(meta, b) with a size that is not b's length fails with
\* errSizeMismatch, whatever the oid, and leaves the bucket as it was.
C17_SizeMismatchFirst ==
    (ContentReturned /\ ~SizeRight) =>
        /\ cret.err = errSizeMismatch
        /\ bucket = call.before

\* Both the size and the oid were wrong and the error is the size's.
C17_Witness ==
    /\ ContentReturned
    /\ ~SizeRight
    /\ ~OidRight
    /\ cret.err = errSizeMismatch
    /\ DOMAIN bucket # {}

-----------------------------------------------------------------------------
(* The object records' claims.                                             *)

\* The caller's last metadata call was op and has returned.
MetaReturned(op) == call.op = op /\ mpc[Caller] = "idle"

ObjectKey == makeKey(objectsPrefix, call.meta.Oid)

\* C14: Put(oid, size) for an oid that has a record leaves the bucket as it
\* was and, when it returns no error, returns the stored record with
\* Existing set; for an oid that has none it stores {oid, size} and returns
\* it with Existing unset.
C14_MetaPutIdempotent ==
    MetaReturned("MetaPut") =>
        IF ObjectKey \in DOMAIN call.before
        THEN /\ bucket = call.before
             /\ mret.err = "" =>
                   mret.meta = [GobDecode(call.before[ObjectKey]) EXCEPT !.Existing = TRUE]
        ELSE mret.err = "" =>
               /\ mret.meta = [Oid |-> call.meta.Oid, Size |-> call.meta.Size,
                               Existing |-> FALSE]
               /\ bucket = S3Put(call.before, ObjectKey, GobEncode(mret.meta))

\* The same for the calls whose result says the record was found.
C14_MetaPutFound ==
    (MetaReturned("MetaPut") /\ mret.err = "" /\ mret.meta.Existing) =>
        C14_MetaPutIdempotent

\* C19: Delete(oid) changes nothing but the record at objects/<oid>, which
\* is gone when Delete returns no error: every other key holds what it held,
\* and Exists for the oid can return what it could return before.
C19_MetaDeleteNoCascade ==
    MetaReturned("MetaDelete") =>
        /\ \A k \in (DOMAIN call.before \cup DOMAIN bucket) \ {ObjectKey} :
              k \in DOMAIN call.before /\ k \in DOMAIN bucket /\ bucket[k] = call.before[k]
        /\ mret.err = "" => ObjectKey \notin DOMAIN bucket
        /\ mret.err # "" => bucket = call.before
        /\ ExistsOn(bucket, call.meta) = ExistsOn(call.before, call.meta)

\* A record was deleted whose blob is stored, beside another record and a
\* lock collection.
C19_Witness ==
    /\ MetaReturned("MetaDelete")
    /\ mret.err = ""
    /\ ObjectKey \in DOMAIN call.before
    /\ BlobKey(call.meta) \in DOMAIN bucket
    /\ TRUE \in ExistsOn(bucket, call.meta)
    /\ makeKey(objectsPrefix, "zz") \in DOMAIN bucket
    /\ makeKey(locksPrefix, "r2") \in DOMAIN bucket

-----------------------------------------------------------------------------
(* The claims about calls that overlap.                                    *)

\* C21: a lock that DeleteLock has returned is absent from the stored
\* collection of its repository from then on, until an AddLocks call is
\* passed it again: no call that read the collection before the delete
\* writes it back.
C21_DeletedStaysDeleted ==
    \A g \in gone : g.lock \notin Range(StoredUnder(g.key))

\* C22: an object record that was stored with size s holds that Size for
\* as long as it is not deleted, whatever Put calls follow or overlap.
C22_SizeWriteOnce ==
    \A k \in DOMAIN sized :
        k \in DOMAIN bucket /\ GobDecode(bucket[k]).Size = sized[k]

====
